---- MODULE Spec2Model ----
(***************************************************************************)
(* Trade lifecycle and global trailing monitor of                          *)
(* tradingview_binance_trailing (src/app.py, src/trade_notifier.py,        *)
(* src/config.py), for one symbol.                                         *)
(*                                                                         *)
(* Units.  Prices are integers in tenths (1000 is 100.0, 1006 is 100.6).   *)
(* Percentages are integers in thousandths of a percent (500 is 0.5 %,     *)
(* -40000 is -40 %).  Quantities are whole lots.  Python floats are        *)
(* replaced by this fixed-point arithmetic; a quotient is floored and a    *)
(* price is rounded to the nearest tenth.                                  *)
(*                                                                         *)
(* A missing dict key and the value None are both written <<>>; a present  *)
(* value v is written <<v>>.                                               *)
(*                                                                         *)
(* src/app.py lines 636-673 are written at column 0 in the source file;    *)
(* they are modelled where the surrounding code places them, inside the    *)
(* "if dyn.get('active')" block of global_trailing_monitor that line 676   *)
(* continues.                                                              *)
(***************************************************************************)
EXTENDS Integers, Sequences, FiniteSets, TLC

\* ------------------------------------------------------------------ bounds
MaxSignals == 2
MaxOrders == 3

\* --------------------------------------------------------------- constants
LEVERAGE == 20
STOP_LOSS_PCT == 2000
LOSS_BARS_LIMIT == 2
MAX_ACTIVE_TRADES == 5
\* config.py of src/ does not define the trailing parameters app.py imports;
\* they take the values of the specification's activation scenario
\* (activation 0.5 %, low offset 0.1 %, high offset 0.3 %), in percent units.
TRAILING_ACTIVATION_PCT == 500
TRAILING_DISTANCE_PCT == 100
TSI_LOW_PROFIT_OFFSET_PCT == 100
TSI_HIGH_PROFIT_OFFSET_PCT == 300
\* one whole percent, and the 0.5 / 9.5 / 10.0 literals of the offset formulas
ONE_PCT == 1000
HALF_PCT == 500
SLOPE_SPAN == 9500
ZONE_MAX == 10000
\* calculate_quantity's result for the symbol, and the symbol's LOT_SIZE
\* filter (stepSize, minQty), in lots
ENTRY_QTY == 2
STEP_SIZE == 1
MIN_QTY == 1
\* calculate_quantity's fallback 0.001, in thousandths of a unit
FALLBACK_QTY == 1
\* inputs of a quote: notional in USD, leverage, ticker price in tenths (0:
\* the lookup failed), stepSize in thousandths, minQty in steps, and the
\* position amounts to close, in thousandths
Amounts == {10, 50}
Leverages == {1, 20}
QuotePrices == {0, 3, 1000, 650000}
StepSizes == {1, 100, 1000}
MinQtySteps == {1, 5}
CloseAmounts == {1, 1500, 2000}
\* the symbol's PRICE_FILTER tickSize, in tenths, and the tick multiplier of
\* the hysteresis band in trade_notifier.check_trailing
TICK_SIZE == 1
HYSTERESIS_TICKS == 2

\* ----------------------------------------------------------------- domains
None == <<>>
Some(v) == <<v>>
Get(f, default) == IF f = <<>> THEN default ELSE f[1]

Sides == {"BUY", "SELL"}
SignalPrices == {1001}
\* the average price the exchange fills an order at: a buy one tenth below
\* the signalled price, a sell one tenth above
FillPrice(side) == IF side = "BUY" THEN 1000 ELSE 1002
\* prices the ticker can report; 0 is "price unavailable"
Prices == {0, 400, 499, 500, 994, 1006, 1072, 1500, 1600}
\* leveraged PnL % the exchange can report for the position; 0 is also what
\* the monitor uses when the lookup gives None
Pnls == {-41000, -40000, -12000, 0, 400, 12000}
\* the prices and PnL % of the specification that also runs the signals
CorePrices == {0, 500, 1600}
CorePnls == {-41000, 0, 12000}
Intervals == {"15m"}
Comments == {"BUY_ENTRY", "SELL_ENTRY", "EXIT_LONG", "EXIT_SHORT",
             "CROSS_EXIT_LONG", "CROSS_EXIT_SHORT"}
\* positions the exchange reports for the other symbols of the account
OtherActive == {0, MAX_ACTIVE_TRADES}
Terminal == {"FILLED", "CANCELED", "REJECTED", "EXPIRED"}

Abs(x) == IF x < 0 THEN -x ELSE x
RoundDiv(a, b) == (2 * a + b) \div (2 * b)

\* ---------------------------------------------------------- pure functions
\* compute_ts_dynamic._to_percent: a value below 1.0 is taken for a fraction
ToPercent(p) == IF Abs(p) < ONE_PCT THEN p * 100 ELSE p

\* unleveraged price change in thousandths of a percent (always >= 0)
ProfitPct(entry_price, current_price) ==
    (Abs(current_price - entry_price) * 100000) \div entry_price

\* the interpolated offset of compute_ts_dynamic
DynamicPct(profit_pct, trail_pct) ==
    LET ts_low == ToPercent(TSI_LOW_PROFIT_OFFSET_PCT)
        ts_high == ToPercent(TSI_HIGH_PROFIT_OFFSET_PCT)
        raw == ((ts_high - ts_low) * (profit_pct - HALF_PCT)) \div SLOPE_SPAN + ts_low
        floored == IF raw < ts_low THEN ts_low ELSE raw
    IN  IF floored <= 0 THEN ToPercent(trail_pct) ELSE floored

\* compute_ts_dynamic: None, or Some(stop price)
compute_ts_dynamic(entry_price, side, current_price, activation_pct, trail_pct) ==
    IF entry_price <= 0 \/ current_price <= 0 THEN None
    ELSE LET profit_pct == ProfitPct(entry_price, current_price)
         IN  IF profit_pct < ToPercent(activation_pct) THEN None
             ELSE LET d == DynamicPct(profit_pct, trail_pct)
                  IN  IF side = "BUY"
                      THEN Some(RoundDiv(current_price * (100000 - d), 100000))
                      ELSE Some(RoundDiv(current_price * (100000 + d), 100000))

\* the dynamic_offset the monitor passes as trail_pct (lines 637-641, 669)
MonitorOffset(pnl_percent) ==
    LET zone == IF Abs(pnl_percent) > ZONE_MAX THEN ZONE_MAX ELSE Abs(pnl_percent)
        off == TSI_LOW_PROFIT_OFFSET_PCT
               + ((TSI_HIGH_PROFIT_OFFSET_PCT - TSI_LOW_PROFIT_OFFSET_PCT) * zone) \div ZONE_MAX
    IN  IF off > 0 THEN off ELSE TRAILING_DISTANCE_PCT

\* a monitor that stores every candidate
TightenStopAlways(side, prev_stop, stop_candidate) == Some(stop_candidate)

\* the stop kept after a candidate (lines 677-684): only a tighter one is stored
TightenStop(side, prev_stop, stop_candidate) ==
    IF side = "BUY"
    THEN IF prev_stop = None \/ stop_candidate > prev_stop[1]
         THEN Some(stop_candidate) ELSE prev_stop
    ELSE IF prev_stop = None \/ stop_candidate < prev_stop[1]
         THEN Some(stop_candidate) ELSE prev_stop

\* a monitor that keeps the last price as the peak
UpdatePeakLast(peak, current_price) == current_price

\* the peak / trough kept after a price (lines 652-661)
UpdatePeak(peak, current_price) == IF current_price > peak THEN current_price ELSE peak
UpdateTrough(trough, current_price) == IF current_price < trough THEN current_price ELSE trough

\* a stop-loss that needs the PnL % strictly below the threshold
StopLossHitStrict(pnl_percent, forced_exit) ==
    pnl_percent < -((STOP_LOSS_PCT * LEVERAGE)) /\ ~forced_exit

\* the hard stop-loss test (lines 597-598)
StopLossHit(pnl_percent, forced_exit) ==
    pnl_percent <= -((STOP_LOSS_PCT * LEVERAGE)) /\ ~forced_exit

\* a stop-hit test that needs the price strictly beyond the stop
StopHitStrict(side, current_price, sp) ==
    \/ side = "BUY" /\ current_price < sp
    \/ side = "SELL" /\ current_price > sp

\* the stop-hit test (lines 693 and 698)
StopHit(side, current_price, sp) ==
    \/ side = "BUY" /\ current_price <= sp
    \/ side = "SELL" /\ current_price >= sp

\* a price test that lets a zero price through
PriceUnavailableBelowZero(current_price) == current_price < 0

\* "if current_price <= 0: continue" (line 579); get_current_price gives 0.0
\* when its request fails
PriceUnavailable(current_price) == current_price <= 0

\* the activation test (line 612)
Activated(pnl_percent, activation_pct) == Abs(pnl_percent) >= activation_pct

\* a worker that opens at once, whether or not a trade exists
AfterReadOpens(existing_live) == "op_count"

\* async_exit_and_open.worker's branch on the existing trade (lines 720-724):
\* the close first when it is not closed, else straight to open_position
AfterRead(existing_live) == IF existing_live THEN "x_pos" ELSE "op_count"

\* a fill test that forgets the thread's "notified" flag
FirstFillAgain(notified, status, executed_qty) ==
    status \in {"PARTIALLY_FILLED", "FILLED"} /\ executed_qty > 0

\* wait_and_notify_filled_entry's test for the fill transition (line 213)
FirstFill(notified, status, executed_qty) ==
    ~notified /\ status \in {"PARTIALLY_FILLED", "FILLED"} /\ executed_qty > 0

\* a ceiling that only a count above MAX_ACTIVE_TRADES reaches
CeilingReachedAbove(active_count) == active_count > MAX_ACTIVE_TRADES

\* open_position's ceiling test (line 135)
CeilingReached(active_count) == active_count >= MAX_ACTIVE_TRADES

\* an execute_market_exit that never takes the position for closed
NoPositionNever(positionAmt) == FALSE

\* execute_market_exit's test of the reported position (line 250)
NoPosition(positionAmt) == Abs(positionAmt) = 0

\* Quantities of a quote are in thousandths of a unit, its price in tenths;
\* the quantity TRADE_AMOUNT * LEVERAGE / price is the fraction num / den.
\* round_quantity for any LOT_SIZE filter: without symbol info round(qty, 3),
\* else floor to the step and raise to the minimum (lines 82-96)
round_quantity_of(has_info, step_size, min_qty, num, den) ==
    IF ~has_info THEN RoundDiv(num, den)
    ELSE LET floored == (num \div (den * step_size)) * step_size
         IN  IF floored < min_qty THEN min_qty ELSE floored

\* calculate_quantity (lines 116-126): a failed or zero price raises and the
\* fallback 0.001 is returned
calculate_quantity(amount, leverage, price, has_info, step_size, min_qty) ==
    IF price <= 0 THEN FALLBACK_QTY
    ELSE round_quantity_of(has_info, step_size, min_qty,
                           amount * leverage * 10000, price)

\* round_quantity: floor to the lot step, then raise to the minimum
round_quantity(qty) ==
    LET floored == (qty \div STEP_SIZE) * STEP_SIZE
    IN  IF floored < MIN_QTY THEN MIN_QTY ELSE floored

\* ------------------------------------------------------------------- state
VARIABLES
    trades,           \* the registry's entry for the symbol (trade_notifier.trades)
    nextGen,          \* identity given to the next dict object stored in trades
    notified_orders,  \* trade_notifier.notified_orders
    lock,             \* trades_lock: "free" or the thread holding it
    tasks,            \* webhook requests and the workers they start
    orders,           \* the exchange's orders for the symbol
    nextOrder,        \* the exchange's next order id
    position,         \* the exchange's signed position for the symbol, in lots
    epoll,            \* wait_and_notify_filled_entry threads, by order id
    xpoll,            \* wait_and_notify_filled_exit threads, by order id
    mon,              \* the global_trailing_monitor thread
    lastNote,         \* the Telegram message sent by the last step, or "none"
    past_max_run,     \* MAX_TRAILING_RUNTIME_MIN has passed since monitoring began
    quote,            \* one quantity computation: its inputs and its result
    book              \* the account's symbols: how far an entry on each has got

vars == <<trades, nextGen, notified_orders, lock, tasks, orders, nextOrder,
          position, epoll, xpoll, mon, lastNote, past_max_run, quote, book>>

\* A dict stored under trades[symbol].  gen is the object's identity;
\* n_exit / n_trail count the exit and trailing-start messages sent about it.
\* active, peak, trough, stop_price and notified are the keys of its
\* "dynamic_trail" dict (has_dyn: that dict exists); tms is
\* "trailing_monitor_started" and exit_signal is "exit_price_signal".
NoTrade ==
    [present |-> FALSE, gen |-> 0, side |-> None, entry_price |-> None,
     order_id |-> None, closed |-> None, exit_price |-> None,
     exit_reason |-> None, quantity |-> None, has_dyn |-> FALSE,
     active |-> None, peak |-> None, trough |-> None, stop_price |-> None,
     notified |-> None, tms |-> None, loss_bars |-> None,
     forced_exit |-> None, interval |-> None, trail_active |-> None,
     exit_signal |-> None, n_exit |-> 0, n_trail |-> 0]

\* {} stored as a new object
EmptyDict(g) == [NoTrade EXCEPT !.present = TRUE, !.gen = g]

\* open_position's provisional record (lines 145-170); order id 0 is "PENDING"
ProvisionalTrade(g, side, limit_price, qty) ==
    [NoTrade EXCEPT !.present = TRUE, !.gen = g, !.side = Some(side),
        !.entry_price = Some(limit_price), !.order_id = Some(0),
        !.closed = Some(FALSE), !.quantity = Some(qty), !.has_dyn = TRUE,
        !.active = Some(FALSE), !.peak = Some(limit_price),
        !.trough = Some(limit_price), !.notified = Some(FALSE),
        !.tms = Some(FALSE), !.loss_bars = Some(0),
        !.forced_exit = Some(FALSE), !.interval = Some("1h")]

\* the record log_trade_entry stores (trade_notifier lines 148-152)
NotifierTrade(g, side, filled_price, interval) ==
    [NoTrade EXCEPT !.present = TRUE, !.gen = g, !.side = Some(side),
        !.entry_price = Some(filled_price), !.closed = Some(FALSE),
        !.interval = Some(interval), !.trail_active = Some(FALSE)]

\* the record log_trailing_start stores when there is none (lines 185-195)
TrailStartTrade(g) ==
    [NoTrade EXCEPT !.present = TRUE, !.gen = g, !.side = Some("UNKNOWN"),
        !.entry_price = Some(0), !.closed = Some(FALSE),
        !.interval = Some("1h"), !.trail_active = Some(TRUE)]

\* "existing and not existing.get('closed', True)"
Live(t) == t.present /\ ~Get(t.closed, TRUE)

NoOrder == [kind |-> "none", side |-> "BUY", status |-> "NONE", qty |-> 0,
            executed |-> 0, avg |-> 0]
\* a thread's dead locals are reset, so that equal futures are one state
IdleTask == [pc |-> "idle", via |-> "none", new_side |-> "BUY", price |-> 0,
             interval |-> "none", seen |-> 0, xside |-> "BUY", xqty |-> 0]
DoneTask == [IdleTask EXCEPT !.pc = "done"]
IdleEPoll == [pc |-> "off", side |-> "BUY", notified |-> FALSE, st |-> "NONE", avg |-> 0]
\* by: the caller of execute_market_exit that started the thread; gen: the
\* trade object that caller had read, kept until the fill is seen
IdleXPoll == [pc |-> "off", price |-> 0, by |-> "none", gen |-> 0]
DoneEPoll == [IdleEPoll EXCEPT !.pc = "done"]
DoneXPoll == [IdleXPoll EXCEPT !.pc = "done"]
\* the fields the monitor reads and writes through its references "trade" and
\* "dyn"; they reach the registry's record only while it is still that object
NoSnap == [forced_exit |-> None, active |-> None, peak |-> None, trough |-> None,
           stop_price |-> None, notified |-> None]
SnapOf(t) == [forced_exit |-> t.forced_exit, active |-> t.active, peak |-> t.peak,
              trough |-> t.trough, stop_price |-> t.stop_price,
              notified |-> t.notified]
IdleMon == [pc |-> "sleep", gen |-> 0, snap |-> NoSnap, side |-> "BUY",
            entry_price |-> 0, cp |-> 0, pnl |-> 0, xqty |-> 0, via |-> "none"]

OrderIds == 1..MaxOrders
TaskIds == 1..MaxSignals

\* one symbol more than the ceiling allows
Symbols == 1..(MAX_ACTIVE_TRADES + 1)
NoBook == [s \in Symbols |-> "idle"]

NoQuote == [pc |-> "none", amount |-> 0, leverage |-> 0, price |-> 0,
            has_info |-> FALSE, step_size |-> 1, min_qty |-> 1, qty |-> 0]

Init ==
    /\ trades = NoTrade
    /\ nextGen = 1
    /\ notified_orders = {}
    /\ lock = "free"
    /\ tasks = [i \in TaskIds |-> IdleTask]
    /\ orders = [o \in OrderIds |-> NoOrder]
    /\ nextOrder = 1
    /\ position = 0
    /\ epoll = [o \in OrderIds |-> IdleEPoll]
    /\ xpoll = [o \in OrderIds |-> IdleXPoll]
    /\ mon = IdleMon
    /\ lastNote = "none"
    /\ past_max_run = FALSE
    /\ quote = NoQuote
    /\ book = NoBook

\* ---------------------------------------------------------------- exchange
\* A resting or market order is filled: a limit entry order partly (one lot)
\* or wholly, a market order wholly.  The position moves by the filled lots.
ExFill(o, whole) ==
    /\ orders[o].status \in {"NEW", "PARTIALLY_FILLED"}
    /\ whole \/ (orders[o].kind = "entry" /\ orders[o].status = "NEW")
    /\ LET ord == orders[o]
           upto == IF whole THEN ord.qty ELSE 1
           delta == upto - ord.executed
           avg == FillPrice(ord.side)
       IN  /\ delta > 0
           /\ orders' = [orders EXCEPT ![o] =
                  [ord EXCEPT !.status = IF upto = ord.qty THEN "FILLED"
                                         ELSE "PARTIALLY_FILLED",
                              !.executed = upto, !.avg = avg]]
           /\ position' = IF ord.side = "BUY" THEN position + delta
                          ELSE position - delta
    /\ UNCHANGED <<trades, nextGen, notified_orders, lock, tasks, nextOrder, epoll, xpoll, mon>>
    /\ lastNote' = "none"
    /\ UNCHANGED <<past_max_run, quote, book>>

\* The exchange ends an order that is not filled: a new one is cancelled,
\* rejected or expires, a partly filled one is cancelled.
ExEnd(o, st) ==
    /\ \/ orders[o].status = "NEW" /\ st \in {"CANCELED", "REJECTED", "EXPIRED"}
       \/ orders[o].status = "PARTIALLY_FILLED" /\ st = "CANCELED"
    /\ orders' = [orders EXCEPT ![o].status = st]
    /\ UNCHANGED <<trades, nextGen, notified_orders, lock, tasks, nextOrder, position, epoll, xpoll, mon>>
    /\ lastNote' = "none"
    /\ UNCHANGED <<past_max_run, quote, book>>

\* POST /fapi/v1/order answered with an orderId
Accepted(ok) == ok /\ nextOrder <= MaxOrders
PlaceOrder(kind, side, qty) ==
    [orders EXCEPT ![nextOrder] = [kind |-> kind, side |-> side, status |-> "NEW",
                                   qty |-> qty, executed |-> 0, avg |-> 0]]

CloseSide(side) == IF side = "BUY" THEN "SELL" ELSE "BUY"

\* count_active_trades: the positions the exchange reports, 0 when the
\* request fails
ActiveCounts == {0} \cup {n + (IF position # 0 THEN 1 ELSE 0) : n \in OtherActive}

\* ----------------------------------------------------------------- webhook
\* A request arrives and webhook() runs up to its first release of the lock
\* (entry signals), through its locked block (exit signals), or starts the
\* async_exit_and_open worker (cross signals).
\* an exit signal that would mark the trade closed as well
ExitSignalCloses(t, close_price) ==
    [t EXCEPT !.exit_signal = Some(close_price), !.closed = Some(TRUE)]

\* webhook lines 779-780 / 788-789: exit_signal_active and exit_price_signal
\* are the only keys an exit signal writes
ExitSignalWrite(t, close_price) == [t EXCEPT !.exit_signal = Some(close_price)]

\* a locked block that would keep the lock on the path that finds no trade
ExitLockKept(live) == "webhook"

\* webhook lines 777-783 / 786-792: the "with trades_lock" block of an exit
\* signal still holds the lock while the message of line 781 / 790 is sent,
\* and has released it when the symbol has no open trade
ExitLock(live) == IF live THEN "webhook" ELSE "free"

Webhook(i, comment, price, interval) ==
    /\ tasks[i].pc = "idle"
    /\ \A j \in TaskIds : j < i => tasks[j].pc # "idle"
    /\ LET t == [tasks[i] EXCEPT !.price = price, !.interval = interval]
       IN  CASE comment \in {"BUY_ENTRY", "SELL_ENTRY"} ->
                 /\ lock = "free"
                 /\ tasks' = [tasks EXCEPT ![i] =
                        [t EXCEPT !.new_side = IF comment = "BUY_ENTRY" THEN "BUY" ELSE "SELL",
                                  !.via = IF Live(trades) THEN "reentry" ELSE "webhook",
                                  !.pc = IF Live(trades) THEN "w_read" ELSE "wh_ctx"]]
                 /\ UNCHANGED <<trades, lock>>
             [] comment \in {"EXIT_LONG", "EXIT_SHORT"} ->
                 /\ lock = "free"
                 /\ lock' = ExitLock(Live(trades))
                 /\ IF Live(trades)
                    THEN /\ trades' = ExitSignalWrite(trades, price)
                         /\ tasks' = [tasks EXCEPT ![i] = [IdleTask EXCEPT !.pc = "ex_send"]]
                    ELSE /\ tasks' = [tasks EXCEPT ![i] = DoneTask]
                         /\ UNCHANGED trades
             [] OTHER ->
                 /\ tasks' = [tasks EXCEPT ![i] =
                        [t EXCEPT !.new_side = IF comment = "CROSS_EXIT_LONG" THEN "SELL" ELSE "BUY",
                                  !.via = "cross", !.pc = "w_read"]]
                 /\ UNCHANGED <<trades, lock>>
    /\ lastNote' = "none"
    /\ UNCHANGED <<nextGen, notified_orders, orders, nextOrder, position,
                   epoll, xpoll, mon>>
    /\ UNCHANGED <<past_max_run, quote, book>>

\* webhook lines 781 / 790: the message is sent inside the locked block
WebhookExitSend(i) ==
    /\ tasks[i].pc = "ex_send"
    /\ lock' = "free"
    /\ lastNote' = "exit_signal"
    /\ tasks' = [tasks EXCEPT ![i] = DoneTask]
    /\ UNCHANGED <<trades, nextGen, notified_orders, orders, nextOrder,
                   position, epoll, xpoll, mon>>
    /\ UNCHANGED <<past_max_run, quote, book>>

\* webhook lines 757-760 / 769-772: the bar context is stored, in a new dict
\* when the symbol has none
WebhookContext(i) ==
    /\ tasks[i].pc = "wh_ctx"
    /\ lock = "free"
    /\ IF trades.present
       THEN /\ trades' = [trades EXCEPT !.interval = Some(tasks[i].interval)]
            /\ UNCHANGED nextGen
       ELSE /\ trades' = [EmptyDict(nextGen) EXCEPT !.interval = Some(tasks[i].interval)]
            /\ nextGen' = nextGen + 1
    /\ tasks' = [tasks EXCEPT ![i].pc = "op_count"]
    /\ UNCHANGED <<notified_orders, lock, orders, nextOrder, position, epoll, xpoll, mon>>
    /\ lastNote' = "none"
    /\ UNCHANGED <<past_max_run, quote, book>>

\* async_exit_and_open.worker lines 717-721
WorkerRead(i) ==
    /\ tasks[i].pc = "w_read"
    /\ lock = "free"
    /\ tasks' = [tasks EXCEPT ![i] =
           IF Live(trades)
           THEN [@ EXCEPT !.pc = AfterRead(TRUE), !.seen = trades.gen,
                          !.xside = Get(trades.side, "BUY")]
           ELSE [@ EXCEPT !.pc = AfterRead(FALSE), !.seen = 0]]
    /\ UNCHANGED <<trades, nextGen, notified_orders, lock, orders, nextOrder, position, epoll, xpoll, mon>>
    /\ lastNote' = "none"
    /\ UNCHANGED <<past_max_run, quote, book>>

\* execute_market_exit lines 249-256, called by the worker: the position
\* query.  A failed request makes pos_data[0] raise, which ends the worker.
WorkerExitQuery(i, fails) ==
    /\ tasks[i].pc = "x_pos"
    /\ IF fails
       THEN /\ tasks' = [tasks EXCEPT ![i] = DoneTask]
            /\ lastNote' = "none"
       ELSE IF NoPosition(position)
            THEN /\ tasks' = [tasks EXCEPT ![i].pc = "w_sleep"]
                 /\ lastNote' = "no_position"
            ELSE /\ tasks' = [tasks EXCEPT ![i].pc = "x_post",
                                           ![i].xqty = round_quantity(Abs(position))]
                 /\ lastNote' = "none"
    /\ UNCHANGED <<trades, nextGen, notified_orders, lock, orders, nextOrder,
                   position, epoll, xpoll, mon>>
    /\ UNCHANGED <<past_max_run, quote, book>>

\* execute_market_exit lines 259-275: after EXIT_MARKET_DELAY the market
\* order is posted and, when accepted, its fill-poll thread started
WorkerExitPost(i, ok) ==
    /\ tasks[i].pc = "x_post"
    /\ IF Accepted(ok)
       THEN /\ orders' = PlaceOrder("close", CloseSide(tasks[i].xside), tasks[i].xqty)
            /\ nextOrder' = nextOrder + 1
            /\ xpoll' = [xpoll EXCEPT ![nextOrder] =
                   [IdleXPoll EXCEPT !.pc = "poll", !.by = "signal",
                                     !.gen = tasks[i].seen]]
            /\ lastNote' = "none"
       ELSE /\ lastNote' = "close_failed"
            /\ UNCHANGED <<orders, nextOrder, xpoll>>
    /\ tasks' = [tasks EXCEPT ![i].pc = "w_sleep", ![i].xqty = 0]
    /\ UNCHANGED <<trades, nextGen, notified_orders, lock, position, epoll, mon>>
    /\ UNCHANGED <<past_max_run, quote, book>>

\* async_exit_and_open.worker line 723: OPPOSITE_CLOSE_DELAY has elapsed
WorkerSleep(i) ==
    /\ tasks[i].pc = "w_sleep"
    /\ tasks' = [tasks EXCEPT ![i].pc = "op_count"]
    /\ UNCHANGED <<trades, nextGen, notified_orders, lock, orders, nextOrder, position, epoll, xpoll, mon>>
    /\ lastNote' = "none"
    /\ UNCHANGED <<past_max_run, quote, book>>

\* ----------------------------------------------------------- open_position
\* lines 134-140: the ceiling on active trades, leverage and quantity
OpenCount(i, active_count) ==
    /\ tasks[i].pc = "op_count"
    /\ active_count \in ActiveCounts
    /\ tasks' = [tasks EXCEPT ![i] =
           IF CeilingReached(active_count) THEN DoneTask
           ELSE [@ EXCEPT !.pc = "op_write"]]
    /\ UNCHANGED <<trades, nextGen, notified_orders, lock, orders, nextOrder, position, epoll, xpoll, mon>>
    /\ lastNote' = "none"
    /\ UNCHANGED <<past_max_run, quote, book>>

\* lines 143-170: the provisional record, written only over a missing or
\* closed one
OpenWrite(i) ==
    /\ tasks[i].pc = "op_write"
    /\ lock = "free"
    /\ IF ~trades.present \/ Get(trades.closed, TRUE)
       THEN /\ trades' = ProvisionalTrade(nextGen, tasks[i].new_side,
                                          tasks[i].price, ENTRY_QTY)
            /\ nextGen' = nextGen + 1
       ELSE UNCHANGED <<trades, nextGen>>
    /\ tasks' = [tasks EXCEPT ![i].pc = "op_submit"]
    /\ UNCHANGED <<notified_orders, lock, orders, nextOrder, position, epoll, xpoll, mon>>
    /\ lastNote' = "none"
    /\ UNCHANGED <<past_max_run, quote, book>>

\* lines 173-193: the alert, the LIMIT order and, when it is accepted, its
\* fill-poll thread
OpenSubmit(i, ok) ==
    /\ tasks[i].pc = "op_submit"
    /\ IF Accepted(ok)
       THEN /\ orders' = PlaceOrder("entry", tasks[i].new_side, ENTRY_QTY)
            /\ nextOrder' = nextOrder + 1
            /\ epoll' = [epoll EXCEPT ![nextOrder] =
                   [IdleEPoll EXCEPT !.pc = "poll", !.side = tasks[i].new_side]]
            /\ lastNote' = "alert"
       ELSE /\ lastNote' = "order_failed"
            /\ UNCHANGED <<orders, nextOrder, epoll>>
    /\ tasks' = [tasks EXCEPT ![i] = DoneTask]
    /\ UNCHANGED <<trades, nextGen, notified_orders, lock, position, xpoll, mon>>
    /\ UNCHANGED <<past_max_run, quote, book>>

\* ------------------------------------------------------ trade_notifier logs
\* log_trade_entry (lines 143-158); it takes no lock
LogTradeEntry(t, g, side, order_id, filled_price, interval) ==
    LET popped == IF t.present /\ Get(t.closed, FALSE) THEN NoTrade ELSE t
    IN  IF order_id \in notified_orders THEN popped
        ELSE NotifierTrade(g, side, filled_price, interval)

\* a log_trade_exit that clears the forced-exit flag of a market close
LogTradeExitClearsForced(t, exit_price, reason) ==
    IF ~t.present THEN t
    ELSE [t EXCEPT !.closed = Some(TRUE), !.exit_price = Some(exit_price),
                   !.exit_reason = Some(reason), !.n_exit = @ + 1,
                   !.forced_exit = IF reason = "MARKET_CLOSE" THEN Some(FALSE) ELSE @]

\* log_trade_exit (lines 161-171); it takes no lock
LogTradeExit(t, exit_price, reason) ==
    IF ~t.present THEN t
    ELSE [t EXCEPT !.closed = Some(TRUE), !.exit_price = Some(exit_price),
                   !.exit_reason = Some(reason), !.n_exit = @ + 1]

\* a close mark that leaves the monitor flag set
MarkClosedKeepsMonitor(t, filled_price) ==
    IF t.present
    THEN [t EXCEPT !.exit_price = Some(filled_price), !.closed = Some(TRUE)]
    ELSE t

\* wait_and_notify_filled_exit's mark of the closed trade (lines 304-308)
MarkClosed(t, filled_price) ==
    IF t.present
    THEN [t EXCEPT !.exit_price = Some(filled_price), !.closed = Some(TRUE),
                   !.tms = Some(FALSE)]
    ELSE t

\* log_trailing_start (lines 177-203); it takes no lock
LogTrailingStart(t, g) ==
    IF ~t.present
    THEN [TrailStartTrade(g) EXCEPT !.n_trail = 1]
    ELSE [t EXCEPT !.trail_active = Some(TRUE), !.n_trail = @ + 1]

\* ------------------------------------------- wait_and_notify_filled_entry
\* lines 199-222 and 239-240: one status query; on the first fill seen the
\* entry price, order id and peak/trough seed are written under the lock
EntryPoll(o) ==
    /\ epoll[o].pc = "poll"
    /\ LET ord == orders[o]
           fill == FirstFill(epoll[o].notified, ord.status, ord.executed)
       IN  IF fill
           THEN /\ lock = "free"
                /\ LET base == IF trades.present THEN trades ELSE EmptyDict(nextGen)
                   IN  trades' = [base EXCEPT !.entry_price = Some(ord.avg),
                                              !.order_id = Some(o),
                                              !.has_dyn = TRUE,
                                              !.peak = Some(ord.avg),
                                              !.trough = Some(ord.avg)]
                /\ nextGen' = IF trades.present THEN nextGen ELSE nextGen + 1
                /\ epoll' = [epoll EXCEPT ![o].pc = "log", ![o].st = ord.status,
                                          ![o].avg = ord.avg]
           ELSE /\ ord.status \in Terminal
                /\ epoll' = [epoll EXCEPT ![o] = DoneEPoll]
                /\ UNCHANGED <<trades, nextGen>>
    /\ UNCHANGED <<notified_orders, lock, tasks, orders, nextOrder, position, xpoll, mon>>
    /\ lastNote' = "none"
    /\ UNCHANGED <<past_max_run, quote, book>>

\* lines 224-229: log_trade_entry, with the interval read from the registry;
\* a missing symbol raises and the fallback message is sent instead
EntryLog(o) ==
    /\ epoll[o].pc = "log"
    /\ IF trades.present
       THEN /\ trades' = LogTradeEntry(trades, nextGen, epoll[o].side, o,
                                       epoll[o].avg, Get(trades.interval, "1h"))
            /\ nextGen' = IF o \in notified_orders THEN nextGen ELSE nextGen + 1
            /\ notified_orders' = notified_orders \cup {o}
            /\ lastNote' = IF o \in notified_orders THEN "none" ELSE "entry"
       ELSE /\ lastNote' = "entry_fallback"
            /\ UNCHANGED <<trades, nextGen, notified_orders>>
    /\ epoll' = [epoll EXCEPT ![o].pc = "mark"]
    /\ UNCHANGED <<lock, tasks, orders, nextOrder, position, xpoll, mon>>
    /\ UNCHANGED <<past_max_run, quote, book>>

\* lines 233-234: the trade is marked for the global monitor; a missing
\* symbol raises and ends the thread
EntryMark(o) ==
    /\ epoll[o].pc = "mark"
    /\ lock = "free"
    /\ IF trades.present
       THEN /\ trades' = [trades EXCEPT !.tms = Some(TRUE)]
            /\ lock' = "entry_poll"
            /\ epoll' = [epoll EXCEPT ![o].pc = "mark_send"]
       ELSE /\ epoll' = [epoll EXCEPT ![o] = DoneEPoll]
            /\ UNCHANGED <<trades, lock>>
    /\ UNCHANGED <<nextGen, notified_orders, tasks, orders, nextOrder, position, xpoll, mon>>
    /\ lastNote' = "none"
    /\ UNCHANGED <<past_max_run, quote, book>>

\* lines 235-241: the message sent inside the locked block, then the loop
\* ends on a terminal status or polls again
EntryMarkSend(o) ==
    /\ epoll[o].pc = "mark_send"
    /\ lock' = "free"
    /\ lastNote' = "marked"
    /\ epoll' = [epoll EXCEPT ![o] =
           IF epoll[o].st \in Terminal THEN DoneEPoll
           ELSE [@ EXCEPT !.notified = TRUE, !.pc = "poll", !.st = "NONE", !.avg = 0]]
    /\ UNCHANGED <<trades, nextGen, notified_orders, tasks, orders, nextOrder,
                   position, xpoll, mon>>
    /\ UNCHANGED <<past_max_run, quote, book>>

\* -------------------------------------------- wait_and_notify_filled_exit
\* lines 286-301: the status query that sees FILLED, then log_trade_exit
ExitPoll(o) ==
    /\ xpoll[o].pc = "poll"
    /\ orders[o].status = "FILLED"
    /\ trades' = LogTradeExit(trades, orders[o].avg, "MARKET_CLOSE")
    /\ lastNote' = IF trades.present THEN "exit_MARKET_CLOSE" ELSE "none"
    /\ xpoll' = [xpoll EXCEPT ![o] =
           [IdleXPoll EXCEPT !.pc = "mark", !.price = orders[o].avg]]
    /\ UNCHANGED <<nextGen, notified_orders, lock, tasks, orders, nextOrder,
                   position, epoll, mon>>
    /\ UNCHANGED <<past_max_run, quote, book>>

\* lines 304-308: the trade is marked closed under the lock
ExitMark(o) ==
    /\ xpoll[o].pc = "mark"
    /\ lock = "free"
    /\ trades' = MarkClosed(trades, xpoll[o].price)
    /\ xpoll' = [xpoll EXCEPT ![o] = [IdleXPoll EXCEPT !.pc = "clean"]]
    /\ UNCHANGED <<nextGen, notified_orders, lock, tasks, orders, nextOrder, position, epoll, mon>>
    /\ lastNote' = "none"
    /\ UNCHANGED <<past_max_run, quote, book>>

\* clean_residual_positions line 324: every open order of the symbol is
\* cancelled
ExitCleanCancel(o) ==
    /\ xpoll[o].pc = "clean"
    /\ orders' = [p \in OrderIds |->
           IF orders[p].status \in {"NEW", "PARTIALLY_FILLED"}
           THEN [orders[p] EXCEPT !.status = "CANCELED"] ELSE orders[p]]
    /\ xpoll' = [xpoll EXCEPT ![o].pc = "clean2"]
    /\ UNCHANGED <<trades, nextGen, notified_orders, lock, tasks, nextOrder, position, epoll, mon>>
    /\ lastNote' = "none"
    /\ UNCHANGED <<past_max_run, quote, book>>

\* clean_residual_positions lines 325-335: the position is queried again and
\* a remainder is flattened by one market order
ExitCleanFlatten(o, ok) ==
    /\ xpoll[o].pc = "clean2"
    /\ IF position # 0 /\ Accepted(ok)
       THEN /\ orders' = PlaceOrder("residual",
                                    IF position > 0 THEN "SELL" ELSE "BUY",
                                    round_quantity(Abs(position)))
            /\ nextOrder' = nextOrder + 1
       ELSE UNCHANGED <<orders, nextOrder>>
    /\ xpoll' = [xpoll EXCEPT ![o] = DoneXPoll]
    /\ UNCHANGED <<trades, nextGen, notified_orders, lock, tasks, position, epoll, mon>>
    /\ lastNote' = "none"
    /\ UNCHANGED <<past_max_run, quote, book>>

\* -------------------------------------------------- global_trailing_monitor
\* the monitor's "trade" / "dyn" still name the registry's record
MonLive == trades.present /\ trades.gen = mon.gen
MonObj == IF MonLive THEN SnapOf(trades) ELSE mon.snap

\* lines 565-566: the symbols to evaluate are collected under the lock
MonitorCollect ==
    /\ mon.pc = "sleep"
    /\ lock = "free"
    /\ Live(trades) /\ Get(trades.tms, FALSE)
    /\ mon' = [IdleMon EXCEPT !.pc = "read"]
    /\ lastNote' = "none"
    /\ UNCHANGED <<trades, nextGen, notified_orders, lock, tasks, orders,
                   nextOrder, position, epoll, xpoll>>
    /\ UNCHANGED <<past_max_run, quote, book>>

\* lines 570-593: the trade is read under the lock, then the price and the
\* PnL % are fetched; a closed trade or an unavailable price ends the tick.
\* Without a position the PnL lookup gives None, which the monitor takes as 0.
\* via records, until the next tick starts, that the tick ended on the price.
MonitorRead(current_price, pnl_percent) ==
    /\ mon.pc = "read"
    /\ lock = "free"
    /\ position = 0 => pnl_percent = 0
    /\ IF ~Live(trades)
       THEN /\ mon' = IdleMon
            /\ UNCHANGED trades
       ELSE /\ trades' = [trades EXCEPT !.has_dyn = TRUE]
            /\ mon' = IF PriceUnavailable(current_price)
                      THEN [IdleMon EXCEPT !.via = "no_price"]
                      ELSE [IdleMon EXCEPT !.pc = "sl", !.gen = trades.gen,
                                !.snap = SnapOf(trades),
                                !.side = Get(trades.side, "BUY"),
                                !.entry_price = Get(trades.entry_price, 0),
                                !.cp = current_price, !.pnl = pnl_percent]
    /\ lastNote' = "none"
    /\ UNCHANGED <<nextGen, notified_orders, lock, tasks, orders, nextOrder,
                   position, epoll, xpoll>>
    /\ UNCHANGED <<past_max_run, quote, book>>

\* lines 595-609: the hard stop-loss.  forced_exit is set under the lock,
\* log_trade_exit is called, and execute_market_exit follows.
MonitorStopLoss ==
    /\ mon.pc = "sl"
    /\ IF StopLossHit(mon.pnl, Get(MonObj.forced_exit, FALSE))
       THEN /\ lock = "free"
            /\ IF trades.present
               THEN /\ trades' = LogTradeExit([trades EXCEPT !.forced_exit = Some(TRUE)],
                                              mon.cp, "STOP_LOSS")
                    /\ lastNote' = "exit_STOP_LOSS"
                    /\ mon' = [mon EXCEPT !.pc = "x_pos", !.via = "sl"]
               ELSE /\ mon' = [mon EXCEPT !.pc = "trail"]
                    /\ lastNote' = "none"
                    /\ UNCHANGED trades
       ELSE /\ mon' = [mon EXCEPT !.pc = "trail"]
            /\ lastNote' = "none"
            /\ UNCHANGED trades
    /\ UNCHANGED <<nextGen, notified_orders, lock, tasks, orders, nextOrder,
                   position, epoll, xpoll>>
    /\ UNCHANGED <<past_max_run, quote, book>>

\* lines 611-701: activation, peak / trough, the candidate stop, tightening
\* and the stop-hit test
MonitorTrail ==
    /\ mon.pc = "trail"
    /\ lock = "free"
    /\ LET d == MonObj
           side == mon.side
           was_active == Get(d.active, FALSE)
           starts == ~was_active /\ Activated(mon.pnl, TRAILING_ACTIVATION_PCT)
           sends == starts /\ ~Get(d.notified, FALSE)
           active == was_active \/ starts
           peak0 == Get(d.peak, mon.entry_price)
           trough0 == Get(d.trough, mon.entry_price)
           peak1 == IF side = "BUY" THEN UpdatePeak(peak0, mon.cp) ELSE peak0
           trough1 == IF side = "BUY" THEN trough0 ELSE UpdateTrough(trough0, mon.cp)
           price_for_stop_calc == IF side = "BUY" THEN peak1 ELSE trough1
           stop_candidate == compute_ts_dynamic(mon.entry_price, side, price_for_stop_calc,
                                                TRAILING_ACTIVATION_PCT,
                                                MonitorOffset(mon.pnl))
           stop1 == IF active /\ stop_candidate # None
                    THEN TightenStop(side, d.stop_price, stop_candidate[1])
                    ELSE d.stop_price
           hit == /\ active /\ stop_candidate # None
                  /\ StopHit(side, mon.cp, stop1[1])
           d1 == [d EXCEPT !.active = IF starts THEN Some(TRUE) ELSE @,
                           !.notified = IF sends THEN Some(TRUE)
                                        ELSE IF starts THEN Some(Get(@, FALSE)) ELSE @,
                           !.peak = IF active THEN Some(peak1) ELSE @,
                           !.trough = IF active THEN Some(trough1) ELSE @,
                           !.stop_price = stop1]
           logged == IF sends THEN LogTrailingStart(trades, nextGen) ELSE trades
       IN  /\ trades' = IF MonLive
                        THEN [logged EXCEPT !.active = d1.active,
                                            !.notified = d1.notified,
                                            !.peak = d1.peak, !.trough = d1.trough,
                                            !.stop_price = d1.stop_price]
                        ELSE logged
           /\ nextGen' = IF sends /\ ~trades.present THEN nextGen + 1 ELSE nextGen
           /\ mon' = IF hit THEN [mon EXCEPT !.pc = "x_pos", !.via = "trail", !.snap = NoSnap]
                     ELSE IdleMon
           /\ lastNote' = IF hit THEN "trail_hit"
                          ELSE IF sends THEN "trail_start" ELSE "none"
    /\ UNCHANGED <<notified_orders, lock, tasks, orders, nextOrder, position,
                   epoll, xpoll>>
    /\ UNCHANGED <<past_max_run, quote, book>>

\* execute_market_exit lines 249-256, called by the monitor.  A failed
\* request raises: the stop-loss block catches it (line 608) and the tick goes
\* on to the trailing section; raised from the stop-hit call it ends the tick.
MonitorExitQuery(fails) ==
    /\ mon.pc = "x_pos"
    /\ IF fails
       THEN /\ mon' = IF mon.via = "sl" THEN [mon EXCEPT !.pc = "trail", !.via = "none"]
                     ELSE IdleMon
            /\ lastNote' = "none"
       ELSE IF NoPosition(position)
            THEN /\ mon' = IdleMon
                 /\ lastNote' = "no_position"
            ELSE /\ mon' = [IdleMon EXCEPT !.pc = "x_post", !.side = mon.side,
                                           !.via = mon.via, !.gen = mon.gen,
                                           !.xqty = round_quantity(Abs(position))]
                 /\ lastNote' = "none"
    /\ UNCHANGED <<trades, nextGen, notified_orders, lock, tasks, orders,
                   nextOrder, position, epoll, xpoll>>
    /\ UNCHANGED <<past_max_run, quote, book>>

\* execute_market_exit lines 259-275, called by the monitor
MonitorExitPost(ok) ==
    /\ mon.pc = "x_post"
    /\ IF Accepted(ok)
       THEN /\ orders' = PlaceOrder("close", CloseSide(mon.side), mon.xqty)
            /\ nextOrder' = nextOrder + 1
            /\ xpoll' = [xpoll EXCEPT ![nextOrder] =
                   [IdleXPoll EXCEPT !.pc = "poll", !.by = mon.via,
                                     !.gen = mon.gen]]
            /\ lastNote' = "none"
       ELSE /\ lastNote' = "close_failed"
            /\ UNCHANGED <<orders, nextOrder, xpoll>>
    /\ mon' = IdleMon
    /\ UNCHANGED <<trades, nextGen, notified_orders, lock, tasks, position, epoll>>
    /\ UNCHANGED <<past_max_run, quote, book>>

NextOpen ==
    \/ \E o \in OrderIds, whole \in BOOLEAN : ExFill(o, whole)
    \/ \E o \in OrderIds, st \in Terminal : ExEnd(o, st)
    \/ \E i \in TaskIds, c \in Comments, px \in SignalPrices, iv \in Intervals :
            Webhook(i, c, px, iv)
    \/ \E i \in TaskIds : WebhookExitSend(i)
    \/ \E i \in TaskIds : WebhookContext(i)
    \/ \E i \in TaskIds : WorkerRead(i)
    \/ \E i \in TaskIds, fails \in BOOLEAN : WorkerExitQuery(i, fails)
    \/ \E i \in TaskIds, ok \in BOOLEAN : WorkerExitPost(i, ok)
    \/ \E i \in TaskIds : WorkerSleep(i)
    \/ \E i \in TaskIds, n \in 0..(MAX_ACTIVE_TRADES + 1) : OpenCount(i, n)
    \/ \E i \in TaskIds : OpenWrite(i)
    \/ \E i \in TaskIds, ok \in BOOLEAN : OpenSubmit(i, ok)
    \/ \E o \in OrderIds : EntryPoll(o)
    \/ \E o \in OrderIds : EntryLog(o)
    \/ \E o \in OrderIds : EntryMark(o)
    \/ \E o \in OrderIds : EntryMarkSend(o)
    \/ \E o \in OrderIds : ExitPoll(o)
    \/ \E o \in OrderIds : ExitMark(o)
    \/ \E o \in OrderIds : ExitCleanCancel(o)
    \/ \E o \in OrderIds, ok \in BOOLEAN : ExitCleanFlatten(o, ok)

NextMonitor ==
    \/ MonitorCollect
    \/ \E cp \in CorePrices, pnl \in CorePnls : MonitorRead(cp, pnl)
    \/ MonitorStopLoss
    \/ MonitorTrail
    \/ \E fails \in BOOLEAN : MonitorExitQuery(fails)
    \/ \E ok \in BOOLEAN : MonitorExitPost(ok)

\* The state after one entry signal has been served and its order filled:
\* webhook stored the bar context (object 1), open_position the provisional
\* record (object 2), and log_trade_entry the record of the filled trade
\* (object 3), which the fill-poll marked for the monitor.
InitLive ==
    \E side \in Sides :
        /\ trades = [NotifierTrade(3, side, FillPrice(side), "1h")
                         EXCEPT !.tms = Some(TRUE)]
        /\ nextGen = 4
        /\ notified_orders = {1}
        /\ lock = "free"
        /\ tasks = [i \in TaskIds |-> IF i = 1 THEN DoneTask ELSE IdleTask]
        /\ orders = [o \in OrderIds |->
               IF o = 1 THEN [kind |-> "entry", side |-> side, status |-> "FILLED",
                              qty |-> ENTRY_QTY, executed |-> ENTRY_QTY,
                              avg |-> FillPrice(side)]
               ELSE NoOrder]
        /\ nextOrder = 2
        /\ position = IF side = "BUY" THEN ENTRY_QTY ELSE -ENTRY_QTY
        /\ epoll = [o \in OrderIds |-> IF o = 1 THEN DoneEPoll ELSE IdleEPoll]
        /\ xpoll = [o \in OrderIds |-> IdleXPoll]
        /\ mon = IdleMon
        /\ lastNote = "marked"
        /\ past_max_run = FALSE
        /\ quote = NoQuote
        /\ book = NoBook

Next == NextOpen \/ NextMonitor

\* the monitor, the close orders it places and their fill-polls
NextTick ==
    \/ \E o \in OrderIds : ExFill(o, TRUE)
    \/ \E o \in OrderIds : ExEnd(o, "EXPIRED")
    \/ \E o \in OrderIds : ExitPoll(o)
    \/ \E o \in OrderIds : ExitMark(o)
    \/ \E o \in OrderIds : ExitCleanCancel(o)
    \/ \E o \in OrderIds, ok \in BOOLEAN : ExitCleanFlatten(o, ok)
    \/ MonitorCollect
    \/ \E cp \in Prices, pnl \in Pnls : MonitorRead(cp, pnl)
    \/ MonitorStopLoss
    \/ MonitorTrail
    \/ \E fails \in BOOLEAN : MonitorExitQuery(fails)
    \/ \E ok \in BOOLEAN : MonitorExitPost(ok)

\* The clock passes the maximum monitor runtime (the test of
\* monitor_trailing_and_exit line 503 would now succeed).
\* global_trailing_monitor reads no clock.
TimePasses ==
    /\ ~past_max_run
    /\ past_max_run' = TRUE
    /\ lastNote' = "none"
    /\ UNCHANGED <<trades, nextGen, notified_orders, lock, tasks, orders,
                   nextOrder, position, epoll, xpoll, mon, quote, book>>

\* the monitor and its close orders, with the clock
NextAge == NextTick \/ TimePasses

\* a quote is asked for an instrument, with or without its exchange info
InitQty ==
    /\ trades = NoTrade
    /\ nextGen = 1
    /\ notified_orders = {}
    /\ lock = "free"
    /\ tasks = [i \in TaskIds |-> IdleTask]
    /\ orders = [o \in OrderIds |-> NoOrder]
    /\ nextOrder = 1
    /\ position = 0
    /\ epoll = [o \in OrderIds |-> IdleEPoll]
    /\ xpoll = [o \in OrderIds |-> IdleXPoll]
    /\ mon = IdleMon
    /\ lastNote = "none"
    /\ past_max_run = FALSE
    /\ book = NoBook
    /\ \E a \in Amounts, l \in Leverages, px \in QuotePrices, info \in BOOLEAN,
          st \in StepSizes, k \in MinQtySteps :
            quote = [NoQuote EXCEPT !.pc = "ask", !.amount = a, !.leverage = l,
                                    !.price = px, !.has_info = info,
                                    !.step_size = st, !.min_qty = k * st]

\* open_position line 140: the entry quantity
QuoteEntry ==
    /\ quote.pc = "ask"
    /\ quote' = [quote EXCEPT !.pc = "entry",
                     !.qty = calculate_quantity(quote.amount, quote.leverage,
                                 quote.price, quote.has_info,
                                 quote.step_size, quote.min_qty)]
    /\ UNCHANGED <<trades, nextGen, notified_orders, lock, tasks, orders,
                   nextOrder, position, epoll, xpoll, mon, lastNote, past_max_run,
                   book>>

\* execute_market_exit line 256 and clean_residual_positions line 333: the
\* quantity of a close order for the position amount amt
QuoteClose(amt) ==
    /\ quote.pc = "ask"
    /\ quote' = [quote EXCEPT !.pc = "close",
                     !.qty = round_quantity_of(quote.has_info, quote.step_size,
                                               quote.min_qty, amt, 1)]
    /\ UNCHANGED <<trades, nextGen, notified_orders, lock, tasks, orders,
                   nextOrder, position, epoll, xpoll, mon, lastNote, past_max_run,
                   book>>

NextQty ==
    \/ QuoteEntry
    \/ \E amt \in CloseAmounts : QuoteClose(amt)

\* count_active_trades (lines 107-114): the symbols whose exchange position
\* is not zero; 0 when the request fails
count_active_trades(b, fails) ==
    IF fails THEN 0 ELSE Cardinality({s \in Symbols : b[s] = "open"})

\* An entry signal for symbol s, which has no trade: open_position counts the
\* active trades and returns at the ceiling (lines 134-137)
SymCount(s, fails) ==
    /\ book[s] = "idle"
    /\ book' = [book EXCEPT ![s] =
           IF CeilingReached(count_active_trades(book, fails))
           THEN "rejected" ELSE "counted"]
    /\ UNCHANGED <<trades, nextGen, notified_orders, lock, tasks, orders,
                   nextOrder, position, epoll, xpoll, mon, lastNote, past_max_run,
                   quote>>

\* lines 143-183: the provisional, non-closed trade of s is stored and its
\* LIMIT order posted
SymWrite(s) ==
    /\ book[s] = "counted"
    /\ book' = [book EXCEPT ![s] = "pending"]
    /\ UNCHANGED <<trades, nextGen, notified_orders, lock, tasks, orders,
                   nextOrder, position, epoll, xpoll, mon, lastNote, past_max_run,
                   quote>>

\* the exchange fills the entry order of s: its position is no longer zero
SymFill(s) ==
    /\ book[s] = "pending"
    /\ book' = [book EXCEPT ![s] = "open"]
    /\ UNCHANGED <<trades, nextGen, notified_orders, lock, tasks, orders,
                   nextOrder, position, epoll, xpoll, mon, lastNote, past_max_run,
                   quote>>

NextBook ==
    \/ \E s \in Symbols, fails \in BOOLEAN : SymCount(s, fails)
    \/ \E s \in Symbols : SymWrite(s)
    \/ \E s \in Symbols : SymFill(s)

\* signals, orders and fill-polls from an empty registry
Spec == Init /\ [][NextOpen]_vars
\* the whole system from a filled, monitored trade
SpecLive == InitLive /\ [][Next]_vars
\* the monitor alone on a filled, monitored trade, over the wider prices
SpecTick == InitLive /\ [][NextTick]_vars
\* the same, while the maximum monitor runtime elapses
SpecAge == InitLive /\ [][NextAge]_vars
\* the quantity computations over the bounded inputs
SpecQty == InitQty /\ [][NextQty]_vars
\* entry signals on distinct symbols of one account
SpecBook == Init /\ [][NextBook]_vars

\* -------------------------------------------------------------- properties
\* an entry order resting on the exchange
OutstandingEntry(o) ==
    orders[o].kind = "entry" /\ orders[o].status \in {"NEW", "PARTIALLY_FILLED"}

\* open_position, run for request i, has its LIMIT order accepted in this step
SubmitsEntry(i) ==
    tasks[i].pc = "op_submit" /\ tasks'[i].pc = "done" /\ nextOrder' = nextOrder + 1

\* C1: two entry signals for a symbol without a non-closed trade are
\* serialized; an entry signal that webhook() passed to open_position
\* directly never submits its entry order while another entry order of the
\* symbol is outstanding.
C1_EntrySignalsSerialized ==
    [][\A i \in TaskIds :
          (SubmitsEntry(i) /\ tasks[i].via = "webhook")
              => ~(\E o \in OrderIds : OutstandingEntry(o))]_vars

\* C2: an entry signal that found a non-closed trade has its entry order
\* submitted only once that trade is fully closed: never while the trade it
\* found is not marked closed and the close order placed for it is not filled.
C2_EntryAfterFullClose ==
    [][\A i \in TaskIds :
          (SubmitsEntry(i) /\ tasks[i].via = "reentry" /\ tasks[i].seen # 0)
              => ~(/\ trades.present /\ trades.gen = tasks[i].seen
                   /\ ~Get(trades.closed, FALSE)
                   /\ position # 0
                   /\ \E o \in OrderIds : /\ orders[o].kind = "close"
                                          /\ orders[o].status = "NEW")]_vars

\* the monitor's stop-loss step and its trailing step of a tick
StopLossStep == mon.pc = "sl" /\ mon'.pc # "sl"
TrailStep == mon.pc = "trail" /\ mon'.pc # "trail"
\* the registry holds the same trade object before and after the step
SameTrade == trades.present /\ trades'.present /\ trades'.gen = trades.gen
\* the price is on the losing / winning side of the entry price
PriceAtLoss(side, entry_price, current_price) ==
    IF side = "BUY" THEN current_price < entry_price ELSE current_price > entry_price
PriceInFavor(side, entry_price, current_price) ==
    IF side = "BUY" THEN current_price > entry_price ELSE current_price < entry_price

\* C3: a trade is marked closed only after a close order for it has been
\* submitted and filled.
C3_ClosedOnlyAfterCloseFill ==
    (trades.present /\ Get(trades.closed, FALSE))
        => \E o \in OrderIds : orders[o].kind = "close" /\ orders[o].status = "FILLED"

\* C4: once a trade's stop_price is set it stays set and never becomes less
\* favorable (BUY: never lower, SELL: never higher), so a candidate replaces
\* it only when strictly more favorable.
C4_StopOnlyTightens ==
    [][(SameTrade /\ trades.stop_price # None)
          => /\ trades'.stop_price # None
             /\ IF Get(trades.side, "BUY") = "BUY"
                THEN trades'.stop_price[1] >= trades.stop_price[1]
                ELSE trades'.stop_price[1] <= trades.stop_price[1]]_vars

\* C4 witness: a BUY trade holds a stop that is not the candidate of its
\* present peak: a later, less favorable candidate was computed and refused.
C4_CandidateRefused ==
    /\ trades.present /\ trades.side = Some("BUY")
    /\ trades.stop_price # None /\ trades.peak # None
    /\ LET c == compute_ts_dynamic(trades.entry_price[1], "BUY", trades.peak[1],
                                   TRAILING_ACTIVATION_PCT, TRAILING_DISTANCE_PCT)
       IN  c # None /\ c[1] < trades.stop_price[1]

\* C5: from its fill on (the fill-poll's seed write, which stores the order
\* id, starts the filled trade) the stored peak of a BUY trade never decreases
\* and the stored trough of a SELL trade never increases.
C5_PeakTroughMonotone ==
    [][(SameTrade /\ trades'.order_id = trades.order_id)
          => /\ (Get(trades.side, "BUY") = "BUY" /\ trades.peak # None)
                    => (trades'.peak # None /\ trades'.peak[1] >= trades.peak[1])
             /\ (Get(trades.side, "BUY") = "SELL" /\ trades.trough # None)
                    => (trades'.trough # None /\ trades'.trough[1] <= trades.trough[1])]_vars

\* C5 witness: a tick of a SELL trade has just observed a price above the
\* stored trough, and the trough was kept.
C5_TroughKept ==
    /\ lastNote = "trail_hit" /\ mon.pc = "x_pos" /\ mon.side = "SELL"
    /\ trades.present /\ trades.side = Some("SELL")
    /\ trades.trough # None /\ trades.trough[1] < mon.cp
    /\ trades.trough[1] < trades.entry_price[1]

\* C6: a trade's forced_exit flag, once true, never returns to false, and the
\* forced-exit policy fires only on a trade whose flag is not yet true; so it
\* goes from false to true, and the policy fires, at most once per trade.
C6_ForcedExitOnce ==
    [][SameTrade
          => /\ Get(trades.forced_exit, FALSE) => Get(trades'.forced_exit, FALSE)
             /\ (StopLossStep /\ mon'.pc = "x_pos")
                    => ~Get(trades.forced_exit, FALSE)]_vars

\* C6 witness: the stop-loss fired for a trade, and the trade's life went on
\* to the fill of its close order with the flag still set.
C6_ForcedThenClosed ==
    /\ trades.present /\ trades.forced_exit = Some(TRUE)
    /\ trades.exit_reason = Some("MARKET_CLOSE")
    /\ trades.n_exit = 2

\* C7: a tick whose PnL % is at or below -STOP_LOSS_PCT * LEVERAGE on a trade
\* whose forced_exit is false sets forced_exit, sends the STOP_LOSS exit
\* notification and calls the market close in that tick.
C7_StopLossFires ==
    [][(/\ StopLossStep /\ MonLive
        /\ mon.pnl <= -(STOP_LOSS_PCT * LEVERAGE)
        /\ ~Get(trades.forced_exit, FALSE))
          => /\ trades'.forced_exit = Some(TRUE)
             /\ trades'.exit_reason = Some("STOP_LOSS")
             /\ trades'.n_exit = trades.n_exit + 1
             /\ lastNote' = "exit_STOP_LOSS"
             /\ mon'.pc = "x_pos"]_vars

\* C7 witness: the stop-loss has just fired on a trade whose trailing was
\* active with a stop price set.
C7_FiredWhileTrailing ==
    /\ lastNote = "exit_STOP_LOSS" /\ mon.pc = "x_pos"
    /\ mon.pnl <= -(STOP_LOSS_PCT * LEVERAGE)
    /\ trades.forced_exit = Some(TRUE)
    /\ trades.active = Some(TRUE) /\ trades.stop_price # None

\* C8: a tick with PnL % < 0 of a trade whose loss counter is below
\* LOSS_BARS_LIMIT adds one to the counter.
C8_LossBarsCounted ==
    [][(/\ TrailStep /\ MonLive /\ mon.pnl < 0
        /\ Get(trades.loss_bars, 0) < LOSS_BARS_LIMIT)
          => Get(trades'.loss_bars, 0) = Get(trades.loss_bars, 0) + 1]_vars

\* C9: a tick at which the position is at a loss leaves trailing inactive:
\* the active flag stays false, no stop is stored, no trailing-start message
\* is sent and no trailing close is triggered.
C9_InactiveAtLoss ==
    [][(/\ TrailStep /\ MonLive
        /\ ~Get(trades.active, FALSE) /\ trades.stop_price = None
        /\ mon.pnl < 0 /\ PriceAtLoss(mon.side, mon.entry_price, mon.cp))
          => /\ ~Get(trades'.active, FALSE)
             /\ trades'.stop_price = None
             /\ lastNote' \notin {"trail_start", "trail_hit"}]_vars

\* C10: a tick at which the favorable unleveraged profit is at or above the
\* activation threshold activates trailing and stores a stop price.
C10_ActivationStoresStop ==
    [][(/\ TrailStep /\ MonLive
        /\ PriceInFavor(mon.side, mon.entry_price, mon.cp)
        /\ ProfitPct(mon.entry_price, mon.cp) >= TRAILING_ACTIVATION_PCT
        /\ mon.pnl >= TRAILING_ACTIVATION_PCT)
          => /\ trades'.active = Some(TRUE)
             /\ trades'.stop_price # None]_vars

\* the hysteresis band (trade_notifier.check_trailing, lines 277-278)
HysteresisBand ==
    IF TICK_SIZE * HYSTERESIS_TICKS > TICK_SIZE
    THEN TICK_SIZE * HYSTERESIS_TICKS ELSE TICK_SIZE

\* the candidate stop the trailing step computes for the trade it evaluates
\* (lines 645-670)
TickCandidate ==
    LET price_for_stop_calc ==
            IF mon.side = "BUY"
            THEN UpdatePeak(Get(trades.peak, mon.entry_price), mon.cp)
            ELSE UpdateTrough(Get(trades.trough, mon.entry_price), mon.cp)
    IN  compute_ts_dynamic(mon.entry_price, mon.side, price_for_stop_calc,
                           TRAILING_ACTIVATION_PCT, MonitorOffset(mon.pnl))

\* C11: a tick whose candidate stop differs from the stored stop by less
\* than max(tick size x hysteresis multiplier, one tick) leaves the stored
\* stop_price unchanged.
C11_HysteresisKeepsStop ==
    [][(/\ TrailStep /\ MonLive /\ SameTrade
        /\ trades.stop_price # None /\ TickCandidate # None
        /\ Abs(TickCandidate[1] - trades.stop_price[1]) < HysteresisBand)
          => trades'.stop_price = trades.stop_price]_vars
FillNotified(o) ==
    xpoll[o].pc = "poll" /\ xpoll'[o].pc = "mark" /\ trades.present

\* C13: the exit notification sent when a close order fills carries the tag
\* of the trigger that requested the close: TRAIL_CLOSE for a trailing-stop
\* hit, STOP_LOSS for the hard stop-loss, and the market tag only for a close
\* requested by a signal.
C13_FillCarriesTriggerTag ==
    [][\A o \in OrderIds :
          FillNotified(o)
              => /\ xpoll[o].by = "trail" => lastNote' = "exit_TRAIL_CLOSE"
                 /\ xpoll[o].by = "sl" => lastNote' = "exit_STOP_LOSS"
                 /\ lastNote' = "exit_MARKET_CLOSE" => xpoll[o].by = "signal"]_vars
\* the steps that change nothing but the running thread and the message sent
NothingSubmitted == UNCHANGED <<trades, orders, nextOrder, xpoll>>

\* C14: a Close on a symbol whose reported position is zero sends the
\* no-position notification and returns; it submits no order, starts no
\* fill-poll and leaves the registry unchanged.
C14_CloseOnFlat ==
    [][position = 0
          => /\ \A i \in TaskIds :
                    WorkerExitQuery(i, FALSE)
                        => /\ lastNote' = "no_position" /\ NothingSubmitted
                           /\ tasks'[i].pc = "w_sleep"
             /\ MonitorExitQuery(FALSE)
                    => /\ lastNote' = "no_position" /\ NothingSubmitted
                       /\ mon'.pc = "sleep"]_vars

\* C14 witness: a Close has just found no position, because an earlier
\* close order had already been filled, and nothing was submitted for it.
C14_SecondCloseFoundFlat ==
    /\ lastNote = "no_position" /\ position = 0
    /\ \E o \in OrderIds : orders[o].kind = "close" /\ orders[o].status = "FILLED"
    /\ \A o \in OrderIds : orders[o].status \notin {"NEW", "PARTIALLY_FILLED"}

\* C15: open_position called when the exchange reports MAX_ACTIVE_TRADES or
\* more open positions returns at once: it writes no provisional trade,
\* submits no order and starts no fill-poll.
C15_OpenRejectedAtCeiling ==
    [][\A i \in TaskIds, n \in MAX_ACTIVE_TRADES..(MAX_ACTIVE_TRADES + 1) :
          OpenCount(i, n)
              => /\ UNCHANGED <<trades, nextGen, orders, nextOrder, epoll>>
                 /\ tasks'[i].pc = "done"]_vars

\* C15 witness: the first entry signal was rejected at the ceiling: its
\* request is over, and the registry holds the bar context webhook() stored
\* but no provisional trade, and no order exists.
C15_RejectedFirstSignal ==
    /\ tasks[1].pc = "done" /\ tasks[2].pc = "idle"
    /\ trades.present /\ trades.side = None /\ trades.interval # None
    /\ nextOrder = 1 /\ lastNote = "none"
\* open_position, run for request i, has its LIMIT order refused in this step
EntryRefused(i) ==
    tasks[i].pc = "op_submit" /\ tasks'[i].pc = "done" /\ nextOrder' = nextOrder

\* the fill-poll of entry order o ends in this step on CANCELED, REJECTED or
\* EXPIRED, having seen no fill
EntryPollEndsUnfilled(o) ==
    /\ epoll[o].pc = "poll" /\ epoll'[o].pc = "done"
    /\ ~epoll[o].notified
    /\ orders[o].status \in {"CANCELED", "REJECTED", "EXPIRED"}
    /\ orders[o].executed = 0

\* no entry order of the symbol is resting or was filled, and no request is
\* being served
SymbolIdle ==
    /\ position = 0
    /\ \A o \in OrderIds : orders[o].status \in {"NONE", "CANCELED", "REJECTED", "EXPIRED"}
                            /\ orders[o].executed = 0
    /\ \A i \in TaskIds : tasks[i].pc \in {"idle", "done"}

\* C16: when the entry order is refused at submission, or its fill-poll sees
\* CANCELED, REJECTED or EXPIRED without a fill, the provisional trade is
\* discarded: the registry then holds no non-closed trade for the symbol, and
\* a later entry signal is served as an open on an idle symbol.
C16_FailedEntryDiscarded ==
    [][/\ \A i \in TaskIds : EntryRefused(i) => ~Live(trades')
       /\ \A o \in OrderIds : EntryPollEndsUnfilled(o) => ~Live(trades')
       /\ \A i \in TaskIds :
              (SymbolIdle /\ tasks[i].pc = "idle" /\ tasks'[i].pc = "w_read")
                  => tasks'[i].via = "cross"]_vars
\* the steps of the fill transition made by the fill-poll of entry order o:
\* the entry-price update, the entry notification, the mark for the monitor
FillUpdate(o) == epoll[o].pc = "poll" /\ epoll'[o].pc = "log"
FillNotify(o) == epoll[o].pc = "log" /\ epoll'[o].pc = "mark"
FillMark(o) == epoll[o].pc = "mark" /\ epoll'[o].pc = "mark_send"

FillDone(o) == epoll[o].pc = "mark_send" /\ epoll'[o].pc # "mark_send"

\* C18: when the fill transition of an entry order has completed, the trade
\* record has the fill price as entry_price, the exchange order id as
\* order_id, peak and trough seeded to the fill price, and still the side,
\* quantity, forced_exit and trailing fields written at submission.
C18_FilledRecordComplete ==
    [][\A o \in OrderIds :
          FillDone(o)
              => /\ trades'.present
                 /\ trades'.entry_price = Some(epoll[o].avg)
                 /\ trades'.order_id = Some(o)
                 /\ trades'.peak = Some(epoll[o].avg)
                 /\ trades'.trough = Some(epoll[o].avg)
                 /\ trades'.side = Some(epoll[o].side)
                 /\ trades'.quantity = Some(ENTRY_QTY)
                 /\ trades'.forced_exit = Some(FALSE)
                 /\ trades'.has_dyn /\ trades'.active = Some(FALSE)]_vars
\* the steps of wait_and_notify_filled_exit for close order o after it has
\* seen FILLED: the mark, then clean_residual_positions' cancel and flatten
CloseMarked(o) == xpoll[o].pc = "mark" /\ xpoll'[o].pc = "clean"
CleanupCancels(o) == xpoll[o].pc = "clean" /\ xpoll'[o].pc = "clean2"
CleanupFlattens(o) == xpoll[o].pc = "clean2" /\ xpoll'[o].pc = "done"

\* C19: after a close order is seen FILLED the trade is marked closed with
\* the fill price as exit_price and its monitor flag cleared; only then the
\* residual cleanup runs: first every open order of the symbol is cancelled,
\* then the position is queried again and at most one market order is
\* submitted, and only for a remainder.
C19_MarkThenCleanup ==
    [][\A o \in OrderIds :
          /\ CloseMarked(o)
                => /\ orders[o].status = "FILLED"
                   /\ trades.present
                        => /\ trades'.closed = Some(TRUE)
                           /\ trades'.exit_price = Some(orders[o].avg)
                           /\ trades'.tms = Some(FALSE)
                   /\ UNCHANGED <<orders, nextOrder>>
          /\ (xpoll'[o].pc = "clean" /\ xpoll[o].pc # "clean") => CloseMarked(o)
          /\ CleanupCancels(o)
                => /\ \A p \in OrderIds :
                          orders'[p].status \notin {"NEW", "PARTIALLY_FILLED"}
                   /\ UNCHANGED <<trades, nextOrder, position>>
          /\ (xpoll'[o].pc = "clean2" /\ xpoll[o].pc # "clean2") => CleanupCancels(o)
          /\ CleanupFlattens(o)
                => /\ UNCHANGED trades
                   /\ IF position = 0
                      THEN UNCHANGED <<orders, nextOrder>>
                      ELSE \/ UNCHANGED <<orders, nextOrder>>
                           \/ /\ nextOrder' = nextOrder + 1
                              /\ orders'[nextOrder].kind = "residual"
                              /\ orders'[nextOrder].qty = round_quantity(Abs(position))
                              /\ orders'[nextOrder].side # (IF position > 0 THEN "BUY" ELSE "SELL")
          /\ (xpoll[o].pc \in {"clean", "clean2"} /\ xpoll'[o].pc = "done")
                => CleanupFlattens(o)]_vars

\* C19 witness: the cleanup of a filled close order has submitted its one
\* market order for a remainder, on a trade marked closed at the fill price.
C19_RemainderFlattened ==
    \E o, p \in OrderIds :
        /\ xpoll[o].pc = "done" /\ orders[o].kind = "close" /\ orders[o].status = "FILLED"
        /\ orders[p].kind = "residual"
        /\ trades.present /\ trades.closed = Some(TRUE) /\ trades.tms = Some(FALSE)
        /\ trades.exit_price = Some(orders[o].avg)
\* the worker serving request i found a non-closed trade (it holds the
\* identity of the record it read)
FoundTrade(i) == tasks[i].via \in {"reentry", "cross"} /\ tasks[i].seen # 0

\* C20: a reentry worker that found a non-closed trade submits the market
\* close first, then lets the reentry delay elapse, and only then calls
\* open_position; the new entry order is never submitted before the close
\* submission and the delay.
C20_CloseDelayThenOpen ==
    [][\A i \in TaskIds :
          /\ (tasks[i].pc = "w_read" /\ tasks'[i].pc # "w_read" /\ Live(trades))
                => tasks'[i].pc = "x_pos"
          /\ (tasks[i].pc = "x_pos" /\ tasks'[i].pc # "x_pos")
                => tasks'[i].pc \in {"x_post", "w_sleep", "done"}
          /\ (tasks[i].pc = "x_pos" /\ tasks'[i].pc = "w_sleep") => position = 0
          /\ (tasks[i].pc = "x_post" /\ tasks'[i].pc # "x_post")
                => /\ tasks'[i].pc = "w_sleep"
                   /\ \/ /\ nextOrder' = nextOrder + 1
                         /\ orders'[nextOrder].kind = "close"
                         /\ orders'[nextOrder].side = CloseSide(tasks[i].xside)
                      \/ lastNote' = "close_failed"
          /\ (tasks'[i].pc = "w_sleep" /\ tasks[i].pc # "w_sleep")
                => tasks[i].pc \in {"x_pos", "x_post"}
          /\ (FoundTrade(i) /\ tasks'[i].pc = "op_count" /\ tasks[i].pc # "op_count")
                => tasks[i].pc = "w_sleep"
          /\ (FoundTrade(i) /\ SubmitsEntry(i)) => tasks[i].pc = "op_submit"]_vars

\* C20 witness: the second request, served by the reentry worker, has just
\* had its entry order accepted, after the close order it submitted.
C20_ReentrySubmitted ==
    /\ lastNote = "alert" /\ tasks[2].pc = "done" /\ nextOrder = 4
    /\ orders[1].kind = "entry" /\ orders[2].kind = "close" /\ orders[3].kind = "entry"
    /\ orders[3].status = "NEW"
\* C21: after a reversal signal on a symbol with an open trade, once the
\* worker, having submitted the close, has submitted the new entry order the
\* registry holds a non-closed
\* trade with the new side and the signalled price as its entry price.
C21_ReversalRecordsNewTrade ==
    [][\A i \in TaskIds :
          (/\ SubmitsEntry(i) /\ tasks[i].via = "cross" /\ tasks[i].seen # 0
           /\ \E o \in OrderIds : orders[o].kind = "close")
              => /\ Live(trades')
                 /\ trades'.side = Some(tasks[i].new_side)
                 /\ trades'.entry_price = Some(tasks[i].price)]_vars
\* the positions at which a request's thread or an entry fill-poll is inside
\* an exchange request, a Telegram send or a sleep
TaskBlocking == {"ex_send", "x_pos", "x_post", "w_sleep", "op_count", "op_submit"}
EPollBlocking == {"poll", "log", "mark_send"}

\* C22: no thread holds trades_lock while it is inside an exchange request,
\* a notification send or a sleep.
C22_NoLockAcrossBlockingCall ==
    /\ \A i \in TaskIds : tasks[i].pc \in TaskBlocking => lock # "webhook"
    /\ \A o \in OrderIds : epoll[o].pc \in EPollBlocking => lock # "entry_poll"
\* C23: every write of a trade record is made by a thread holding
\* trades_lock, so while one thread holds the lock (its step that releases it
\* writes nothing) no record changes.
C23_WritesUnderLock ==
    [][lock # "free" => trades' = trades]_vars
\* the worker of request i, started for an entry signal of the side of the
\* trade it found open, has its market close accepted in this step
ClosesForDuplicate(i) ==
    /\ tasks[i].pc = "x_post" /\ tasks'[i].pc = "w_sleep"
    /\ nextOrder' = nextOrder + 1

\* C24: an entry signal delivered a second time changes nothing: handling it
\* neither closes the trade the first delivery opened, nor submits a second
\* entry order, nor replaces the trade record.
C24_DuplicateEntryIsNoOp ==
    [][\A i \in TaskIds :
          (/\ tasks[i].via = "reentry" /\ tasks[i].seen = trades.gen
           /\ trades.side = Some(tasks[i].new_side))
              => /\ ~ClosesForDuplicate(i)
                 /\ ~SubmitsEntry(i)
                 /\ tasks'[i] # tasks[i] => trades'.gen = trades.gen]_vars
\* a close order the monitor placed is still waiting for its fill
MonitorCloseAwaitsFill ==
    \E o \in OrderIds : /\ orders[o].kind = "close"
                        /\ orders[o].status \notin Terminal
                        /\ xpoll[o].pc = "poll"
                        /\ xpoll[o].by \in {"sl", "trail"}

\* the monitor decides in this step to close the trade (stop-loss or stop hit)
MonitorTriggersClose ==
    mon.pc \in {"sl", "trail"} /\ mon'.pc = "x_pos"

\* the monitor has a close order accepted in this step
MonitorSubmitsClose ==
    mon.pc = "x_post" /\ nextOrder' = nextOrder + 1

\* C25: while a close the monitor triggered for the trade awaits its fill, no
\* later tick triggers another close or submits another close order.
C25_OneMonitorClose ==
    [][MonitorCloseAwaitsFill => ~MonitorTriggersClose /\ ~MonitorSubmitsClose]_vars
\* the monitor starts to evaluate the symbol in this step
MonitorStartsTick ==
    mon.pc = "sleep" /\ mon'.pc = "read"

\* C26: monitoring of a trade ends when the trade is closed, is missing from
\* the registry, or the maximum monitor lifetime is exceeded: the monitor
\* starts no evaluation of the symbol in any of the three cases.
C26_MonitoringEnds ==
    [][MonitorStartsTick => Live(trades) /\ ~past_max_run]_vars
\* the order of a fill-poll that waits at its status query has reached a
\* terminal status
EntryPollSeesEnd(o) == epoll[o].pc = "poll" /\ orders[o].status \in Terminal
ExitPollSeesEnd(o) == xpoll[o].pc = "poll" /\ orders[o].status \in Terminal

\* C27: a fill-poll, of an entry order or of a close order, that queries an
\* order in a terminal status (FILLED, CANCELED, REJECTED, EXPIRED) leaves its
\* polling loop: its next query is a step that ends the wait.
C27_PollEndsOnTerminal ==
    \A o \in OrderIds :
        /\ (EntryPollSeesEnd(o) /\ lock = "free") => ENABLED EntryPoll(o)
        /\ ExitPollSeesEnd(o) => ENABLED ExitPoll(o)
\* C28: on a tick whose price is unavailable (the lookup failed or gave 0) the
\* tick is skipped: stop_price, peak, trough, active and forced_exit are
\* unchanged, and no close is triggered, no order placed, no message sent.
C28_NoPriceSkipsTick ==
    [][\A pnl \in Pnls :
          MonitorRead(0, pnl)
              => /\ trades'.stop_price = trades.stop_price
                 /\ trades'.peak = trades.peak
                 /\ trades'.trough = trades.trough
                 /\ trades'.active = trades.active
                 /\ trades'.forced_exit = trades.forced_exit
                 /\ mon'.pc = "sleep"
                 /\ orders' = orders /\ xpoll' = xpoll
                 /\ lastNote' = "none"]_vars

\* C28 witness: a tick of an open trade with trailing active and a stop set
\* has just ended on an unavailable price.
C28_SkippedWhileTrailing ==
    /\ mon.pc = "sleep" /\ mon.via = "no_price"
    /\ Live(trades) /\ trades.active = Some(TRUE)
    /\ trades.stop_price # None
\* C29: the trailing-started notification is sent at most once per trade
\* (never about a record that already got one), and a trade's active flag,
\* once true, never returns to false.
C29_TrailStartOnce ==
    [][SameTrade
          => /\ Get(trades.active, FALSE) => Get(trades'.active, FALSE)
             /\ lastNote' = "trail_start" => trades.n_trail = 0]_vars
\* C30: every quantity computed for a trade or an order is at least the
\* instrument's minimum order size and a whole multiple of its lot step,
\* also when the symbol info or the price is unavailable.
C30_QuantityOnLotGrid ==
    quote.pc \in {"entry", "close"}
        => /\ quote.qty >= quote.min_qty
           /\ quote.qty % quote.step_size = 0
\* open_position, run for request i, stores its provisional record in this step
WritesProvisional(i) ==
    /\ tasks[i].pc = "op_write" /\ tasks'[i].pc = "op_submit"
    /\ trades'.present /\ trades'.gen # trades.gen

\* C31: the record created for an entry signal that carries interval X, on a
\* symbol without a non-closed trade, has interval X and not a default.
C31_RecordKeepsSignalInterval ==
    [][\A i \in TaskIds :
          (WritesProvisional(i) /\ tasks[i].via = "webhook")
              => trades'.interval = Some(tasks[i].interval)]_vars
\* C32: at most one exit notification is sent about a trade over its
\* lifetime, whichever exit policy closed it.
C32_OneExitNotification ==
    trades.n_exit <= 1
\* the fill-poll of close order o sees FILLED in this step and calls
\* log_trade_exit
CloseConfirmed(o) ==
    xpoll[o].pc = "poll" /\ xpoll'[o].pc = "mark"

\* C33: a close-fill confirmation marks only the trade it was submitted for:
\* a replacement trade of the symbol that is in the registry when the old
\* close is confirmed is not marked closed.
C33_CloseMarksItsOwnTrade ==
    [][\A o \in OrderIds :
          (CloseConfirmed(o) /\ Live(trades) /\ trades.gen # xpoll[o].gen)
              => Live(trades')]_vars
\* C34: the residual cleanup after close order o never cancels an entry order
\* submitted after o for a replacement trade, and never flattens the
\* position such an order has opened.
C34_CleanupSparesReplacement ==
    [][\A o \in OrderIds :
          /\ CleanupCancels(o)
                => \A p \in OrderIds :
                       (p > o /\ OutstandingEntry(p))
                           => orders'[p].status = orders[p].status
          /\ CleanupFlattens(o)
                => ~(/\ nextOrder' = nextOrder + 1
                     /\ \E p \in OrderIds : /\ p > o /\ orders[p].kind = "entry"
                                             /\ orders[p].executed > 0)]_vars
\* C35: the number of symbols with a non-closed trade (entry pending or
\* open) never exceeds MAX_ACTIVE_TRADES.
C35_ActiveTradesBounded ==
    Cardinality({s \in Symbols : book[s] \in {"pending", "open"}})
        <= MAX_ACTIVE_TRADES
\* the registry's record is a provisional one: its order id is still
\* "PENDING", no fill of its entry order has been seen
PendingRecord(t) == t.present /\ t.order_id = Some(0)

\* C36: the monitor evaluates only trades with closed = false and
\* trailing_monitor_started = true, and that flag becomes true only through
\* the fill of the trade's own entry order: a record whose entry order is
\* still pending is never marked for the monitor.
C36_MonitoredOnlyAfterFill ==
    (Live(trades) /\ Get(trades.tms, FALSE)) => ~PendingRecord(trades)

\* the threads that are inside a "with trades_lock" block
LockHolders ==
    {<<"webhook", i>> : i \in {j \in TaskIds : tasks[j].pc = "ex_send"}}
        \cup {<<"entry_poll", o>> : o \in {q \in OrderIds : epoll[q].pc = "mark_send"}}

\* C37: the registry lock cannot deadlock: the lock is held exactly when one
\* thread is inside a locked block, that thread never waits for the lock
\* again before leaving the block, and its next step (which releases the
\* lock) is always possible, so the threads waiting for the lock are never
\* all there is.
C37_LockNeverStuck ==
    /\ lock = "free" => LockHolders = {}
    /\ lock = "webhook" =>
          /\ Cardinality(LockHolders) = 1
          /\ \E i \in TaskIds : tasks[i].pc = "ex_send" /\ ENABLED WebhookExitSend(i)
    /\ lock = "entry_poll" =>
          /\ Cardinality(LockHolders) = 1
          /\ \E o \in OrderIds : epoll[o].pc = "mark_send" /\ ENABLED EntryMarkSend(o)

\* an exit signal holds the lock while the monitor waits for it
C37_HeldWhileMonitorWaits ==
    /\ lock = "webhook"
    /\ mon.pc = "read"
    /\ ~ENABLED (\E cp \in Prices, pnl \in Pnls : MonitorRead(cp, pnl))

\* a step of the webhook handler that serves an EXIT_LONG / EXIT_SHORT signal:
\* the locked block of lines 777-783 / 786-792, or the message sent inside it
ExitSignalStep(i) ==
    \/ tasks[i].pc = "idle" /\ tasks'[i].pc \in {"ex_send", "done"}
    \/ tasks[i].pc = "ex_send" /\ tasks'[i].pc = "done"

\* C38: an EXIT_LONG or EXIT_SHORT signal never closes anything: it writes
\* only the exit-signal keys of a non-closed trade, leaving its side, entry
\* price, closed flag, stop, peak/trough and forced_exit as they were; it
\* changes nothing when the symbol has no non-closed trade; and it submits
\* no order and leaves the position alone in both cases.
C38_ExitSignalOnlyMarks ==
    [][\A i \in TaskIds : ExitSignalStep(i) =>
          /\ [trades' EXCEPT !.exit_signal = trades.exit_signal] = trades
          /\ ~Live(trades) => trades' = trades
          /\ orders' = orders
          /\ nextOrder' = nextOrder
          /\ position' = position
          /\ xpoll' = xpoll]_vars

\* an exit signal has just been recorded on an open trade, which stays open
C38_ExitSignalRecorded ==
    /\ lastNote = "exit_signal"
    /\ Live(trades)
    /\ trades.exit_signal # None
====
